---- MODULE Spec2Model ----
(***************************************************************************)
(* The application data value codec of embedded-bacnet                     *)
(* (src/src/application_protocol/primitives/data_value.rs): encode writes  *)
(* a tag header and the content bytes of one value into a Writer, decode   *)
(* reads one value back from a buffer through a Reader, given the tag and  *)
(* the requesting object id and property id.                               *)
(*                                                                         *)
(* Representation.  A byte is 0..255.  A u32 (and the bit pattern of an    *)
(* f32) is a record [hi, lo] of its two 16-bit halves, so that every       *)
(* 32-bit value is representable; to_be_bytes and from_be_bytes convert    *)
(* between it and four bytes.  An enumeration member is its discriminant.  *)
(* A call that panics (panic!, assert_eq!, unwrap on Err, unimplemented!,  *)
(* todo!, an out-of-range read) has the outcome kind "panic"; a call that  *)
(* returns has the outcome kind "ok".  ApplicationDataValue::decode        *)
(* returns Self, not a Result, so it has no outcome kind "err".            *)
(***************************************************************************)
EXTENDS Integers, Sequences, FiniteSets, TLC

VARIABLES
    pc,         \* "idle" | "encoded" | "received" | "tagged" | "done" | "reencoded" | "sent"
    build,      \* the build profile: overflow checks on (debug) or off (release)
    src,        \* where the bytes come from: "none" | "encode" | "write" | "inject" | "set_time"
    value,      \* the value handed to an encoder
    writer,     \* the bytes the encoder wrote
    buf,        \* the buffer handed to the decoder
    trunc,      \* buf is a proper prefix of writer
    ctx,        \* the requesting context [object_type, property_id]
    reader,     \* Reader.index
    start,      \* Reader.index when ApplicationDataValue::decode was entered
    tag,        \* the tag read from buf
    inner,      \* what BitString::decode returned, when it was called
    outcome,    \* what the last call returned
    now         \* the local date and time set_time read from the clock

vars == <<pc, build, src, value, writer, buf, trunc, ctx, reader, start, tag, inner, outcome, now>>

\* ------------------------------------------------------------------ bounds

\* Longest character string drawn over Alphabet.
MaxStrLen == 2
\* Most flag bytes of a custom bit string.
MaxBitsLen == 2
\* Largest declared length of an injected tag.
MaxTagLen == 6

\* ------------------------------------------------------- program constants

Date_LEN == 4
Time_LEN == 4
YearBase == 1900

\* ------------------------------------------------------------ u32 and bytes

Byte == 0..255

U32(hi, lo) == [hi |-> hi, lo |-> lo]

\* u32::to_be_bytes / f32::to_be_bytes
to_be_bytes(w) == <<w.hi \div 256, w.hi % 256, w.lo \div 256, w.lo % 256>>

\* u32::from_be_bytes / f32::from_be_bytes of exactly four bytes
from_be_bytes(b) == U32(b[1] * 256 + b[2], b[3] * 256 + b[4])

\* `x as u32` of an enumeration member
as_u32(code) == U32(0, code)

Zeros(n) == [i \in 1..n |-> 0]

\* ------------------------------------------------------------ common::helper

\* get_len_u32: the number of bytes of the narrowest encoding of a u32
get_len_u32(w) ==
    IF w.hi = 0
    THEN IF w.lo < 256 THEN 1 ELSE 2
    ELSE IF w.hi < 256 THEN 3 ELSE 4

\* encode_unsigned: the low `len` bytes of the value, big-endian
encode_unsigned(len, w) == SubSeq(to_be_bytes(w), 5 - len, 4)

\* ------------------------------------------------------------ common::io

ReadFail(index) == [ok |-> FALSE, val |-> <<>>, index |-> index]

\* Reader::read_byte: val is the one byte read
Reader_read_byte(index, b) ==
    IF index < Len(b)
    THEN [ok |-> TRUE, val |-> <<b[index + 1]>>, index |-> index + 1]
    ELSE ReadFail(index)

\* Reader::read_bytes::<COUNT> and Reader::read_slice(len)
Reader_read_slice(n, index, b) ==
    IF index + n <= Len(b)
    THEN [ok |-> TRUE, val |-> SubSeq(b, index + 1, index + n), index |-> index + n]
    ELSE ReadFail(index)

Reader_read_bytes(n, index, b) == Reader_read_slice(n, index, b)

\* decode_unsigned: `len` big-endian bytes, 1 to 4 of them
decode_unsigned(len, index, b) ==
    IF len \in 1..4
    THEN LET r == Reader_read_slice(len, index, b)
         IN  IF r.ok
             THEN [ok |-> TRUE, val |-> from_be_bytes(Zeros(4 - len) \o r.val),
                   index |-> r.index]
             ELSE [ok |-> FALSE, val |-> U32(0, 0), index |-> index]
    ELSE [ok |-> FALSE, val |-> U32(0, 0), index |-> index]

\* ------------------------------------------------------------ common::tag

AppTagNames ==
    {"Null", "Boolean", "UnsignedInt", "SignedInt", "Real", "Double", "OctetString",
     "CharacterString", "BitString", "Enumerated", "Date", "Time", "ObjectId"}

\* ApplicationTagNumber as u8
AppTagCode(name) ==
    CASE name = "Null" -> 0
      [] name = "Boolean" -> 1
      [] name = "UnsignedInt" -> 2
      [] name = "SignedInt" -> 3
      [] name = "Real" -> 4
      [] name = "Double" -> 5
      [] name = "OctetString" -> 6
      [] name = "CharacterString" -> 7
      [] name = "BitString" -> 8
      [] name = "Enumerated" -> 9
      [] name = "Date" -> 10
      [] name = "Time" -> 11
      [] name = "ObjectId" -> 12

AppTag(name, v) == [class |-> "Application", app |-> name, ctx |-> 0, value |-> v]
CtxTag(n, v) == [class |-> "Context", app |-> "None", ctx |-> n, value |-> v]
NoTag == [class |-> "None", app |-> "None", ctx |-> 0, value |-> 0]

\* Tag::encode: the header octet (tag number, class bit, length/value nibble), the
\* escaped tag number when it is 15 or more, the extended length when it is 5 or more
Tag_encode(t) ==
    LET n == IF t.class = "Application" THEN AppTagCode(t.app) ELSE t.ctx
        c == IF t.class = "Application" THEN 0 ELSE 8
        first == (IF n <= 14 THEN n * 16 ELSE 240) + c + (IF t.value <= 4 THEN t.value ELSE 5)
        escape == IF n <= 14 THEN <<>> ELSE <<n>>
        ext == IF t.value <= 4 THEN <<>>
               ELSE IF t.value <= 253 THEN <<t.value>>
               ELSE IF t.value <= 65535 THEN <<254, t.value \div 256, t.value % 256>>
               ELSE <<255>> \o to_be_bytes(U32(t.value \div 65536, t.value % 65536))
    IN  <<first>> \o escape \o ext

TagFail(index) == [ok |-> FALSE, tag |-> NoTag, index |-> index]

\* Tag::decode: the reverse of Tag::encode; an unknown application tag number, a
\* malformed header or a read past the end is a failure
Tag_decode(index, b) ==
    LET r0 == Reader_read_byte(index, b)
    IN  IF ~r0.ok THEN TagFail(index) ELSE
    LET first == r0.val[1]
        isCtx == (first \div 8) % 2 = 1
        lvt == first % 8
        r1 == IF first \div 16 = 15 THEN Reader_read_byte(r0.index, b)
              ELSE [ok |-> TRUE, val |-> <<first \div 16>>, index |-> r0.index]
    IN  IF ~r1.ok \/ lvt > 5 THEN TagFail(index) ELSE
    LET n == r1.val[1]
        r2 == IF lvt < 5 THEN [ok |-> TRUE, val |-> <<lvt>>, index |-> r1.index]
              ELSE Reader_read_byte(r1.index, b)
    IN  IF ~r2.ok THEN TagFail(index) ELSE
    LET r3 == IF lvt < 5 \/ r2.val[1] <= 253 THEN r2
              ELSE IF r2.val[1] = 254 THEN Reader_read_slice(2, r2.index, b)
              ELSE Reader_read_slice(4, r2.index, b)
    IN  IF ~r3.ok THEN TagFail(index) ELSE
    LET v == IF Len(r3.val) = 1 THEN r3.val[1]
             ELSE IF Len(r3.val) = 2 THEN r3.val[1] * 256 + r3.val[2]
             ELSE r3.val[2] * 65536 + r3.val[3] * 256 + r3.val[4]
    IN  IF isCtx THEN [ok |-> TRUE, tag |-> CtxTag(n, v), index |-> r3.index]
        ELSE IF \E a \in AppTagNames : AppTagCode(a) = n
        THEN [ok |-> TRUE,
              tag |-> AppTag(CHOOSE a \in AppTagNames : AppTagCode(a) = n, v),
              index |-> r3.index]
        ELSE TagFail(index)

\* ------------------------------------------- common::object_id, common::spec

\* ObjectType as u32, for the object types the model draws
ObjectTypeCode(name) ==
    CASE name = "ObjectAnalogInput" -> 0
      [] name = "ObjectBinaryInput" -> 3
      [] name = "ObjectBinaryOutput" -> 4
      [] name = "ObjectBinaryValue" -> 5
      [] name = "ObjectDevice" -> 8

ObjectTypes ==
    {"ObjectAnalogInput", "ObjectBinaryInput", "ObjectBinaryOutput", "ObjectBinaryValue",
     "ObjectDevice"}

\* The discriminants TryFrom<u32> accepts, per enumeration
EnumLegal(kind, c) ==
    CASE kind = "Units" -> c \in 0..254
      [] kind = "Binary" -> c \in 0..1
      [] kind = "ObjectType" -> c \in 0..59
      [] kind = "EventState" -> c \in 0..5
      [] kind = "NotifyType" -> c \in 0..2
      [] kind = "LoggingType" -> c \in 0..2

\* TryFrom<u32> for an enumeration: the member, or Err
try_from(kind, w) ==
    IF w.hi = 0 /\ EnumLegal(kind, w.lo)
    THEN [ok |-> TRUE, code |-> w.lo]
    ELSE [ok |-> FALSE, code |-> 0]

\* FlagSet::<T>::new(byte): Err when a bit outside the flags of T is set.
\* StatusFlags has the four high bits, LogBufferResultFlags the three high bits.
FlagSet_new(flags, byte) ==
    IF flags = "StatusFlags" THEN byte % 16 = 0 ELSE byte % 32 = 0

\* ObjectId::encode: object type in the high 10 bits, instance in the low 22
ObjectId_encode(x) ==
    to_be_bytes(U32(ObjectTypeCode(x.object_type) * 64 + x.id \div 65536, x.id % 65536))

\* ObjectId::decode -> Result<ObjectId, Error>
ObjectId_decode(size, index, b) ==
    IF size # 4 THEN [kind |-> "err", object_type |-> "None", id |-> 0, index |-> index] ELSE
    LET r == Reader_read_bytes(4, index, b)
    IN  IF ~r.ok THEN [kind |-> "panic", object_type |-> "None", id |-> 0, index |-> index] ELSE
    LET w == from_be_bytes(r.val)
        t == w.hi \div 64
    IN  IF \E o \in ObjectTypes : ObjectTypeCode(o) = t
        THEN [kind |-> "ok",
              object_type |-> CHOOSE o \in ObjectTypes : ObjectTypeCode(o) = t,
              id |-> (w.hi % 64) * 65536 + w.lo, index |-> r.index]
        ELSE [kind |-> "err", object_type |-> "None", id |-> 0, index |-> r.index]

\* ------------------------------------------------------------------ values

NoValue == [variant |-> "None"]

Boolean(x) == [variant |-> "Boolean", b |-> x]
Real(w) == [variant |-> "Real", bits |-> w]
Double == [variant |-> "Double"]
Date(y, m, d, w) == [variant |-> "Date", year |-> y, month |-> m, day |-> d, wday |-> w]
Time(h, m, s, c) ==
    [variant |-> "Time", hour |-> h, minute |-> m, second |-> s, hundredths |-> c]
ObjectId(t, i) == [variant |-> "ObjectId", object_type |-> t, id |-> i]
CharacterString(s) == [variant |-> "CharacterString", inner |-> s]
\* Enumerated::Units .. Enumerated::LoggingType hold a member, Enumerated::Unknown a u32
Enumerated(k, c) == [variant |-> "Enumerated", kind |-> k, code |-> c]
EnumeratedUnknown(w) == [variant |-> "Enumerated", kind |-> "Unknown", raw |-> w]
\* BitString::StatusFlags and BitString::LogBufferResultFlags hold the flag byte
BitStringFlags(f, x) == [variant |-> "BitString", flags |-> f, flagbits |-> x]
BitStringCustom(u, s) ==
    [variant |-> "BitString", flags |-> "Custom", unused_bits |-> u, bits |-> s]
UnsignedInt(w) == [variant |-> "UnsignedInt", n |-> w]
WeeklySchedule == [variant |-> "WeeklySchedule"]

\* ------------------------------------------------------------------ encode

\* Enumerated::encode (lines 58-75)
Enumerated_encode(x) ==
    LET val == IF x.kind = "Unknown" THEN x.raw ELSE as_u32(x.code)
        len == get_len_u32(val)
    IN  Tag_encode(AppTag("Enumerated", len)) \o encode_unsigned(len, val)

\* The u16 subtraction `self.year - 1900`: it panics when overflow checks are on and
\* wraps when they are off
Date_year_underflows(d, b) == b = "debug" /\ d.year < YearBase

\* Date::encode (lines 119-125): `(self.year - 1900) as u8`, then month, day, wday
Date_encode(d) ==
    <<(((d.year - YearBase) % 65536) % 256), d.month, d.day, d.wday>>

\* Time::encode (lines 155-160)
Time_encode(t) == <<t.hour, t.minute, t.second, t.hundredths>>

\* BitString::encode (lines 204-226): the unused-bits byte written is always 0
BitString_encode(x) ==
    IF x.flags = "Custom"
    THEN Tag_encode(AppTag("BitString", Len(x.bits) + 1)) \o <<0>> \o x.bits
    ELSE Tag_encode(AppTag("BitString", 2)) \o <<0>> \o <<x.flagbits>>

\* ApplicationDataValueWrite::encode (lines 274-294), Boolean, Real and Enumerated arms
ApplicationDataValueWrite_encode(x) ==
    CASE x.variant = "Boolean" ->
            Tag_encode(AppTag("Boolean", 1)) \o <<IF x.b THEN 1 ELSE 0>>
      [] x.variant = "Real" -> Tag_encode(AppTag("Real", 4)) \o to_be_bytes(x.bits)
      [] x.variant = "Enumerated" -> Enumerated_encode(x)

Wrote(bytes) == [panic |-> FALSE, bytes |-> bytes]
Panicked(bytes) == [panic |-> TRUE, bytes |-> bytes]

\* ApplicationDataValue::encode (lines 298-360); b is the build profile
ApplicationDataValue_encode(x, b) ==
    CASE x.variant = "Boolean" ->
            Wrote(Tag_encode(AppTag("Boolean", IF x.b THEN 1 ELSE 0)))
      [] x.variant = "Real" ->
            Wrote(Tag_encode(AppTag("Real", 4)) \o to_be_bytes(x.bits))
      [] x.variant = "Date" ->
            IF Date_year_underflows(x, b)
            THEN Panicked(Tag_encode(AppTag("Date", Date_LEN)))
            ELSE Wrote(Tag_encode(AppTag("Date", Date_LEN)) \o Date_encode(x))
      [] x.variant = "Time" ->
            Wrote(Tag_encode(AppTag("Time", Time_LEN)) \o Time_encode(x))
      [] x.variant = "ObjectId" ->
            Wrote(Tag_encode(AppTag("ObjectId", 4)) \o ObjectId_encode(x))
      [] x.variant = "CharacterString" ->
            Wrote(Tag_encode(AppTag("CharacterString", Len(x.inner) + 1))
                  \o <<0>> \o x.inner)
      [] x.variant = "Enumerated" -> Wrote(Enumerated_encode(x))
      [] x.variant = "BitString" -> Wrote(BitString_encode(x))
      [] x.variant = "UnsignedInt" ->
            Wrote(Tag_encode(AppTag("UnsignedInt", 4)) \o to_be_bytes(x.n))
      [] x.variant = "WeeklySchedule" -> Panicked(<<>>)
      [] OTHER -> Panicked(<<>>)

\* ------------------------------------------------------------------ decode

Ok(v, index) == [kind |-> "ok", value |-> v, index |-> index]
Err(index) == [kind |-> "err", value |-> NoValue, index |-> index]
Panic(index) == [kind |-> "panic", value |-> NoValue, index |-> index]
NotCalled == [kind |-> "none", value |-> NoValue, index |-> 0]

\* Date::decode_inner without the 1900 offset
Date_decode_inner_NoOffset(v) == Date(v[1], v[2], v[3], v[4])

\* Date::decode_inner (lines 106-117)
Date_decode_inner(v) == Date(v[1] + YearBase, v[2], v[3], v[4])

\* Date::decode (lines 101-104): four bytes, whatever the tag's length
Date_decode(index, b) ==
    LET r == Reader_read_bytes(4, index, b)
    IN  IF r.ok THEN Ok(Date_decode_inner(r.val), r.index) ELSE Panic(index)

\* Time::decode (lines 142-153): four read_byte calls
Time_decode(index, b) ==
    LET r1 == Reader_read_byte(index, b)
        r2 == Reader_read_byte(r1.index, b)
        r3 == Reader_read_byte(r2.index, b)
        r4 == Reader_read_byte(r3.index, b)
    IN  IF r1.ok /\ r2.ok /\ r3.ok /\ r4.ok
        THEN Ok(Time(r1.val[1], r2.val[1], r3.val[1], r4.val[1]), r4.index)
        ELSE Panic(r4.index)

\* BitString::decode_byte_flag (lines 252-257): Ok(flags) or Err(InvalidValue)
BitString_decode_byte_flag(flags, byte, index) ==
    IF FlagSet_new(flags, byte) THEN Ok(BitStringFlags(flags, byte), index) ELSE Err(index)

\* BitString::decode (lines 228-250) -> Result<BitString, Error>.  In the custom arm
\* `len - 1` with len = 0 panics with overflow checks and wraps without them, and the
\* wrapped length is past the end of every buffer: a panic in both builds.
BitString_decode(property_id, len, index, b) ==
    LET r0 == Reader_read_byte(index, b)
    IN  IF ~r0.ok THEN Panic(index) ELSE
        IF property_id \in {"PropStatusFlags", "PropLogBuffer"}
        THEN LET r1 == Reader_read_byte(r0.index, b)
             IN  IF ~r1.ok THEN Panic(r0.index)
                 ELSE BitString_decode_byte_flag(
                          IF property_id = "PropStatusFlags" THEN "StatusFlags"
                          ELSE "LogBufferResultFlags",
                          r1.val[1], r1.index)
        ELSE IF len = 0 THEN Panic(r0.index)
        ELSE LET r1 == Reader_read_slice(len - 1, r0.index, b)
             IN  IF ~r1.ok THEN Panic(r0.index)
                 ELSE Ok(BitStringCustom(r0.val[1], r1.val), r1.index)

\* core::str::from_utf8(s).is_ok()
RECURSIVE IsUtf8(_)
IsUtf8(s) ==
    IF Len(s) = 0 THEN TRUE ELSE
    LET c == s[1]
        Cont(i) == i <= Len(s) /\ s[i] \in 128..191
        Rest(n) == IsUtf8(SubSeq(s, n + 1, Len(s)))
    IN  CASE c < 128 -> Rest(1)
          [] c \in 194..223 -> Cont(2) /\ Rest(2)
          [] c = 224 -> Cont(2) /\ s[2] >= 160 /\ Cont(3) /\ Rest(3)
          [] c \in 225..236 \cup 238..239 -> Cont(2) /\ Cont(3) /\ Rest(3)
          [] c = 237 -> Cont(2) /\ s[2] <= 159 /\ Cont(3) /\ Rest(3)
          [] c = 240 -> Cont(2) /\ s[2] >= 144 /\ Cont(3) /\ Cont(4) /\ Rest(4)
          [] c \in 241..243 -> Cont(2) /\ Cont(3) /\ Cont(4) /\ Rest(4)
          [] c = 244 -> Cont(2) /\ s[2] <= 143 /\ Cont(3) /\ Cont(4) /\ Rest(4)
          [] OTHER -> FALSE

\* CharacterString::decode (lines 261-270).  `len as usize - 1` with len = 0 panics
\* or wraps past the end of every buffer: a panic in both builds.
CharacterString_decode(len, index, b) ==
    LET r0 == Reader_read_byte(index, b)
    IN  IF ~r0.ok THEN Panic(index) ELSE
        IF r0.val[1] # 0 THEN Panic(r0.index) ELSE
        IF len = 0 THEN Panic(r0.index) ELSE
    LET r1 == Reader_read_slice(len - 1, r0.index, b)
    IN  IF ~r1.ok THEN Panic(r0.index) ELSE
        IF IsUtf8(r1.val) THEN Ok(CharacterString(r1.val), r1.index) ELSE Panic(r1.index)

\* The enumeration a property id selects (lines 389-421), "Unknown" when none is
EnumKindOf(object_type, property_id) ==
    CASE property_id = "PropUnits" -> "Units"
      [] property_id = "PropPresentValue" ->
            IF object_type \in {"ObjectBinaryInput", "ObjectBinaryOutput", "ObjectBinaryValue"}
            THEN "Binary" ELSE "Unknown"
      [] property_id = "PropObjectType" -> "ObjectType"
      [] property_id = "PropEventState" -> "EventState"
      [] property_id = "PropNotifyType" -> "NotifyType"
      [] property_id = "PropLoggingType" -> "LoggingType"
      [] OTHER -> "Unknown"

\* ApplicationDataValue::decode, Enumerated arm (lines 387-423): try_from(..).unwrap()
Enumerated_decode(len, object_type, property_id, index, b) ==
    LET r == decode_unsigned(len, index, b)
        k == EnumKindOf(object_type, property_id)
    IN  IF ~r.ok THEN Panic(index) ELSE
        IF k = "Unknown" THEN Ok(EnumeratedUnknown(r.val), r.index) ELSE
        IF try_from(k, r.val).ok
        THEN Ok(Enumerated(k, try_from(k, r.val).code), r.index)
        ELSE Panic(r.index)

\* ApplicationDataValue::decode (lines 362-449)
ApplicationDataValue_decode(t, object_type, property_id, index, b) ==
    IF t.class # "Application" THEN Panic(index) ELSE
    CASE t.app = "Real" ->
            IF t.value # 4 THEN Panic(index) ELSE
            LET r == Reader_read_bytes(4, index, b)
            IN  IF r.ok THEN Ok(Real(from_be_bytes(r.val)), r.index) ELSE Panic(index)
      [] t.app = "ObjectId" ->
            LET r == ObjectId_decode(t.value, index, b)
            IN  IF r.kind = "ok" THEN Ok(ObjectId(r.object_type, r.id), r.index)
                ELSE Panic(r.index)
      [] t.app = "CharacterString" -> CharacterString_decode(t.value, index, b)
      [] t.app = "Enumerated" ->
            Enumerated_decode(t.value, object_type, property_id, index, b)
      [] t.app = "BitString" ->
            LET r == BitString_decode(property_id, t.value, index, b)
            IN  IF r.kind = "ok" THEN r ELSE Panic(r.index)
      [] t.app = "Boolean" -> Ok(Boolean(t.value > 0), index)
      [] t.app = "UnsignedInt" ->
            LET r == decode_unsigned(t.value, index, b)
            IN  IF r.ok THEN Ok(UnsignedInt(r.val), r.index) ELSE Panic(index)
      [] t.app = "Time" ->
            IF t.value # 4 THEN Panic(index) ELSE Time_decode(index, b)
      [] t.app = "Date" -> Date_decode(index, b)
      [] OTHER -> Panic(index)

\* ------------------------------------------------------------------ inputs

SeqsUpTo(S, n) == UNION {[1..k -> S] : k \in 0..n}

Alphabet == {65, 66}
BitBytes == {160, 255}

\* u32 samples at the boundaries of the 1-, 2-, 3- and 4-byte encodings
U32Samples ==
    {U32(0, 0), U32(0, 255), U32(0, 256), U32(0, 65535), U32(1, 0), U32(255, 65535),
     U32(256, 0), U32(65535, 65535)}

\* f32 bit patterns: 0.0, 23.5, -1.0, a NaN
RealSamples == {U32(0, 0), U32(16828, 0), U32(49024, 0), U32(65535, 65535)}

\* Every year the year byte can hold, and one year on each side
Years == (YearBase - 1)..(YearBase + 256)

DateValues ==
    {Date(y, m[1], m[2], m[3]) : y \in Years, m \in {<<1, 15, 1>>, <<255, 255, 255>>}}

TimeValues == {Time(0, 0, 0, 0), Time(14, 30, 0, 0), Time(23, 59, 59, 99), Time(255, 255, 255, 255)}

ObjectIdValues ==
    {ObjectId("ObjectDevice", 79079), ObjectId("ObjectAnalogInput", 0),
     ObjectId("ObjectBinaryValue", 4194303)}

\* "", "A", .., "BB", "é" and "Hello" (whose tag needs the extended length)
StringValues ==
    {CharacterString(x) : x \in SeqsUpTo(Alphabet, MaxStrLen)
                                \cup {<<195, 169>>, <<72, 101, 108, 108, 111>>}}

EnumeratedValues ==
    {Enumerated("Units", c) : c \in {0, 62, 254}}
    \cup {Enumerated("Binary", c) : c \in {0, 1}}
    \cup {Enumerated("ObjectType", c) : c \in {0, 8}}
    \cup {Enumerated("EventState", c) : c \in {0, 5}}
    \cup {Enumerated("NotifyType", c) : c \in {0, 2}}
    \cup {Enumerated("LoggingType", c) : c \in {0, 2}}
    \cup {EnumeratedUnknown(w) : w \in U32Samples}

BitStringValues ==
    {BitStringFlags("StatusFlags", x) : x \in {0, 128, 240}}
    \cup {BitStringFlags("LogBufferResultFlags", x) : x \in {0, 224}}
    \cup {BitStringCustom(u, x) : u \in {0, 3}, x \in SeqsUpTo(BitBytes, MaxBitsLen)}

\* The ApplicationDataValue values handed to ApplicationDataValue::encode
Values ==
    {Boolean(x) : x \in BOOLEAN} \cup {Real(w) : w \in RealSamples} \cup {Double}
    \cup DateValues \cup TimeValues \cup ObjectIdValues \cup StringValues
    \cup EnumeratedValues \cup BitStringValues
    \cup {UnsignedInt(w) : w \in U32Samples} \cup {WeeklySchedule}

\* The ApplicationDataValueWrite values handed to ApplicationDataValueWrite::encode
WriteValues ==
    {Boolean(x) : x \in BOOLEAN} \cup {Real(w) : w \in RealSamples} \cup EnumeratedValues

NoCtx == [object_type |-> "None", property_id |-> "None"]

\* The requesting contexts: present-value on binary and analog objects, and each
\* property id that selects an interpretation, plus one that selects none
Contexts ==
    {[object_type |-> o, property_id |-> "PropPresentValue"] :
        o \in {"ObjectBinaryInput", "ObjectBinaryOutput", "ObjectBinaryValue",
               "ObjectAnalogInput"}}
    \cup {[object_type |-> "ObjectDevice", property_id |-> p] :
            p \in {"PropUnits", "PropObjectType", "PropEventState", "PropNotifyType",
                   "PropLoggingType", "PropStatusFlags", "PropLogBuffer", "PropObjectName"}}

\* Tags a peer can send: every application tag number with every declared length up
\* to MaxTagLen, and context tags
InjectTags ==
    {AppTag(a, v) : a \in AppTagNames, v \in 0..MaxTagLen}
    \cup {CtxTag(n, v) : n \in {0, 2, 15}, v \in {0, 4}}

\* Content bytes a peer can send after the tag
InjectContents ==
    {<<>>, <<0>>, <<2>>, <<0, 1>>, <<0, 2>>, <<0, 128>>, <<0, 255>>, <<1, 65>>,
     <<0, 65, 66>>, <<0, 128, 7>>, <<3, 160, 255>>, <<255, 1, 15, 1>>,
     <<124, 1, 15, 1, 9>>, <<0, 0, 1, 0, 0, 0>>, <<2, 19, 78, 231>>}

\* ------------------------------------------------- examples/time_sync.rs

Weekdays == <<"Mon", "Tue", "Wed", "Thu", "Fri", "Sat", "Sun">>

\* chrono::Weekday::num_days_from_sunday: Sunday is 0, Monday 1, .., Saturday 6
num_days_from_sunday(weekday) ==
    CASE weekday = "Sun" -> 0
      [] weekday = "Mon" -> 1
      [] weekday = "Tue" -> 2
      [] weekday = "Wed" -> 3
      [] weekday = "Thu" -> 4
      [] weekday = "Fri" -> 5
      [] weekday = "Sat" -> 6

NoClock == [year |-> 0, month |-> 0, day |-> 0, weekday |-> "None", hour |-> 0, minute |-> 0,
            second |-> 0]

\* Local::now(): the seven days from Monday 2024-01-15 to Sunday 2024-01-21, at a
\* few times of day
ClockSamples ==
    {[year |-> 2024, month |-> 1, day |-> 14 + i, weekday |-> Weekdays[i],
      hour |-> t[1], minute |-> t[2], second |-> t[3]] :
        i \in 1..7, t \in {<<0, 0, 0>>, <<14, 30, 0>>, <<23, 59, 59>>}}

\* set_time (lines 42-50): the Date built from the clock
set_time_date(n) == Date(n.year, n.month, n.day, num_days_from_sunday(n.weekday))

\* set_time (lines 51-56): the Time built from the clock, seconds and hundredths 0
set_time_time(n) == Time(n.hour, n.minute, 0, 0)

\* TimeSynchronization::encode: the date and the time as application-tagged values
TimeSynchronization_encode(d, t, b) ==
    ApplicationDataValue_encode(d, b).bytes \o ApplicationDataValue_encode(t, b).bytes

\* ------------------------------------------------------------------ actions

Init ==
    /\ pc = "idle"
    /\ build \in {"debug", "release"}
    /\ src = "none"
    /\ value = NoValue
    /\ writer = <<>>
    /\ buf = <<>>
    /\ trunc = FALSE
    /\ ctx = NoCtx
    /\ reader = 0
    /\ start = 0
    /\ tag = NoTag
    /\ inner = NotCalled
    /\ outcome = [kind |-> "none", value |-> NoValue]
    /\ now = NoClock

\* A caller encodes a value with ApplicationDataValue::encode
Encode ==
    /\ pc = "idle"
    /\ \E v \in Values :
        LET e == ApplicationDataValue_encode(v, build)
        IN  /\ value' = v
            /\ writer' = e.bytes
            /\ pc' = IF e.panic THEN "done" ELSE "encoded"
            /\ outcome' = [kind |-> IF e.panic THEN "panic" ELSE "ok", value |-> NoValue]
    /\ src' = "encode"
    /\ UNCHANGED <<now, build, buf, trunc, ctx, reader, start, tag, inner>>

\* A caller encodes a value with ApplicationDataValueWrite::encode
EncodeWrite ==
    /\ pc = "idle"
    /\ \E v \in WriteValues :
        /\ value' = v
        /\ writer' = ApplicationDataValueWrite_encode(v)
    /\ pc' = "encoded"
    /\ src' = "write"
    /\ outcome' = [kind |-> "ok", value |-> NoValue]
    /\ UNCHANGED <<now, build, buf, trunc, ctx, reader, start, tag, inner>>

\* The first k bytes written arrive at a decoder that asks in context c
Receive ==
    /\ pc = "encoded"
    /\ \E k \in 0..Len(writer), c \in Contexts :
        /\ buf' = SubSeq(writer, 1, k)
        /\ trunc' = (k < Len(writer))
        /\ ctx' = c
    /\ reader' = 0
    /\ pc' = "received"
    /\ UNCHANGED <<now, build, src, value, writer, start, tag, inner, outcome>>

\* A peer's bytes arrive: an arbitrary tag followed by arbitrary content
Inject ==
    /\ pc = "idle"
    /\ \E t \in InjectTags, content \in InjectContents, c \in Contexts :
        /\ buf' = Tag_encode(t) \o content
        /\ ctx' = c
    /\ src' = "inject"
    /\ reader' = 0
    /\ pc' = "received"
    /\ UNCHANGED <<now, build, value, writer, trunc, start, tag, inner, outcome>>

\* The caller reads the tag with Tag::decode
DecodeTag ==
    /\ pc = "received"
    /\ LET r == Tag_decode(reader, buf)
       IN  /\ tag' = r.tag
           /\ reader' = r.index
           /\ start' = r.index
           /\ pc' = IF r.ok THEN "tagged" ELSE "done"
           /\ outcome' = IF r.ok THEN outcome ELSE [kind |-> "tag_error", value |-> NoValue]
    /\ UNCHANGED <<now, build, src, value, writer, buf, trunc, ctx, inner>>

\* The caller hands the tag, the context, the reader and the buffer to
\* ApplicationDataValue::decode
Decode ==
    /\ pc = "tagged"
    /\ LET r == ApplicationDataValue_decode(tag, ctx.object_type, ctx.property_id, reader, buf)
       IN  /\ outcome' = [kind |-> r.kind, value |-> r.value]
           /\ reader' = r.index
    /\ inner' = IF tag.class = "Application" /\ tag.app = "BitString"
                THEN BitString_decode(ctx.property_id, tag.value, reader, buf)
                ELSE NotCalled
    /\ pc' = "done"
    /\ UNCHANGED <<now, build, src, value, writer, buf, trunc, ctx, start, tag>>

\* The caller encodes the decoded value again
ReEncode ==
    /\ pc = "done"
    /\ outcome.kind = "ok"
    /\ LET e == ApplicationDataValue_encode(outcome.value, build)
       IN  /\ writer' = e.bytes
           /\ outcome' = [kind |-> IF e.panic THEN "panic" ELSE "ok", value |-> outcome.value]
    /\ pc' = "reencoded"
    /\ UNCHANGED <<now, build, src, value, buf, trunc, ctx, reader, start, tag, inner>>

\* set_time (lines 40-74) reads the clock, builds the time-synchronization message
\* and encodes it for sending; value is the Date it built, writer the service
\* payload (the link, network and application headers before it are left out)
SetTime ==
    /\ pc = "idle"
    /\ \E n \in ClockSamples :
        /\ now' = n
        /\ value' = set_time_date(n)
        /\ writer' = TimeSynchronization_encode(set_time_date(n), set_time_time(n), build)
    /\ src' = "set_time"
    /\ outcome' = [kind |-> "ok", value |-> NoValue]
    /\ pc' = "sent"
    /\ UNCHANGED <<build, buf, trunc, ctx, reader, start, tag, inner>>

Next ==
    Encode \/ EncodeWrite \/ Receive \/ Inject \/ DecodeTag \/ Decode \/ ReEncode \/ SetTime

Spec == Init /\ [][Next]_vars

\* ------------------------------------------------------------------ claims

\* ApplicationDataValue::decode was called and has returned or panicked
Decoded == pc = "done" /\ tag.class # "None"

IsAppTag(name) == tag.class = "Application" /\ tag.app = name

\* The context matches the semantic variant of v: the property id (and object type)
\* select the enumeration or flag set that v holds
MatchesContext(v, c) ==
    CASE v.variant = "Enumerated" -> EnumKindOf(c.object_type, c.property_id) = v.kind
      [] v.variant = "BitString" ->
            CASE v.flags = "StatusFlags" -> c.property_id = "PropStatusFlags"
              [] v.flags = "LogBufferResultFlags" -> c.property_id = "PropLogBuffer"
              [] OTHER -> c.property_id \notin {"PropStatusFlags", "PropLogBuffer"}
      [] OTHER -> TRUE

\* C1: every value of every variant, encoded with ApplicationDataValue::encode and
\* decoded from all the bytes written in a context that matches its variant, comes
\* back equal to itself.
C1_RoundTrip ==
    (src = "encode" /\ pc = "done" /\ ~trunc /\ (ctx = NoCtx \/ MatchesContext(value, ctx)))
        => (outcome.kind = "ok" /\ outcome.value = value)

\* C2: ApplicationDataValue::decode called on a proper prefix of the bytes of an
\* encoded value returns a typed error to its caller (it does not panic).
C2_TruncatedTypedError ==
    (Decoded /\ src = "encode" /\ trunc) => outcome.kind = "err"

\* The raw code an Enumerated tag carries in the buffer
RawCode == decode_unsigned(tag.value, start, buf)

\* C3: an Enumerated tag decodes to the variant its context selects (Binary for
\* present-value on a binary object, Units for units) when its code is legal there,
\* and to Enumerated::Unknown carrying the raw code when the code is outside the
\* legal range of the selected enumeration.
C3_ContextDispatch ==
    (Decoded /\ IsAppTag("Enumerated") /\ RawCode.ok) =>
        LET k == EnumKindOf(ctx.object_type, ctx.property_id)
        IN  /\ outcome.kind = "ok"
            /\ outcome.value =
                  IF k # "Unknown" /\ try_from(k, RawCode.val).ok
                  THEN Enumerated(k, RawCode.val.lo)
                  ELSE EnumeratedUnknown(RawCode.val)

\* The smallest k in 1..4 with n < 256^k
MinimalLen(w) ==
    LET Fits(k) == CASE k = 1 -> w.hi = 0 /\ w.lo < 256
                     [] k = 2 -> w.hi = 0
                     [] k = 3 -> w.hi < 256
                     [] OTHER -> TRUE
    IN  CHOOSE k \in 1..4 : Fits(k) /\ \A j \in 1..(k - 1) : ~Fits(j)

\* The u32 an UnsignedInt or Enumerated value carries
UnsignedOf(v) ==
    IF v.variant = "UnsignedInt" THEN v.n
    ELSE IF v.kind = "Unknown" THEN v.raw ELSE as_u32(v.code)

\* C4: every encoder of an UnsignedInt or Enumerated value n writes a tag of the
\* smallest length k in 1..4 with n < 256^k and then exactly the k low bytes of n,
\* big-endian.
C4_MinimalLength ==
    (pc = "encoded" /\ value.variant \in {"UnsignedInt", "Enumerated"}) =>
        LET n == UnsignedOf(value)
            k == MinimalLen(n)
        IN  writer = Tag_encode(AppTag(value.variant, k)) \o SubSeq(to_be_bytes(n), 5 - k, 4)

\* The four content bytes after a Date tag
DateBytes == SubSeq(buf, start + 1, start + 4)

\* C5: Date::encode writes year - 1900, month, day, wday in that order and
\* Date::decode reads byte + 1900, month, day, wday back: every year in 1900..2155
\* round-trips, and a stored year byte of 255 is decoded (as 2155) and encoded again
\* as 255 without being rejected.
C5_DateYearMapping ==
    /\ (src = "encode" /\ pc = "encoded" /\ value.variant = "Date"
            /\ value.year \in 1900..2155) =>
          writer = Tag_encode(AppTag("Date", 4))
                     \o <<value.year - 1900, value.month, value.day, value.wday>>
    /\ (src = "encode" /\ pc = "done" /\ ~trunc /\ value.variant = "Date"
            /\ value.year \in 1900..2155) =>
          (outcome.kind = "ok" /\ outcome.value = value)
    /\ (Decoded /\ IsAppTag("Date") /\ start + 4 <= Len(buf)) =>
          /\ outcome.kind = "ok"
          /\ outcome.value =
                Date(DateBytes[1] + 1900, DateBytes[2], DateBytes[3], DateBytes[4])
    /\ (pc = "reencoded" /\ IsAppTag("Date")) =>
          /\ outcome.kind = "ok"
          /\ writer = Tag_encode(AppTag("Date", 4)) \o DateBytes

\* C5 witness: the year 2155 was encoded as byte 255, decoded and encoded again
C5_Witness ==
    /\ pc = "reencoded" /\ src = "encode" /\ IsAppTag("Date")
    /\ value.variant = "Date" /\ value.year = 2155
    /\ DateBytes[1] = 255 /\ writer[2] = 255

\* C6: a context tag, an application tag number without a decode arm, and a Real or
\* Time tag whose declared length is not 4 make ApplicationDataValue::decode return
\* a typed error to its caller.
C6_UnsupportedTagTypedError ==
    (Decoded /\ (\/ tag.class = "Context"
                 \/ tag.app \in {"Null", "SignedInt", "Double", "OctetString"}
                 \/ (tag.app \in {"Real", "Time"} /\ tag.value # 4)))
        => outcome.kind = "err"

\* C7: the first content byte of a CharacterString is the character-set selector:
\* with selector 0 the declared-length-minus-one bytes after it are the string, and
\* with every other selector the decode returns a typed error to its caller.
C7_CharsetSelector ==
    (Decoded /\ IsAppTag("CharacterString") /\ start < Len(buf)) =>
        IF buf[start + 1] = 0
        THEN (tag.value >= 1 /\ start + tag.value <= Len(buf)
                /\ IsUtf8(SubSeq(buf, start + 2, start + tag.value))) =>
                (/\ outcome.kind = "ok"
                 /\ outcome.value = CharacterString(SubSeq(buf, start + 2, start + tag.value)))
        ELSE outcome.kind = "err"

\* C8: both encoders of a Boolean b write only a Boolean tag whose length/value
\* field is b (0 or 1), with no content byte after it, so they write the same
\* bytes; decode of a Boolean tag returns tag value > 0 and consumes no byte.
C8_BooleanInTag ==
    /\ (pc = "encoded" /\ value.variant = "Boolean") =>
          writer = Tag_encode(AppTag("Boolean", IF value.b THEN 1 ELSE 0))
    /\ (Decoded /\ IsAppTag("Boolean")) =>
          (outcome.kind = "ok" /\ outcome.value = Boolean(tag.value > 0) /\ reader = start)

\* C9: when the flag byte of a BitString decoded as status-flags or log-buffer has a
\* bit outside the flag set, BitString::decode returns Err(InvalidValue) and
\* ApplicationDataValue::decode surfaces that typed error to its caller.
C9_InnerErrorSurfaces ==
    (Decoded /\ IsAppTag("BitString")
        /\ ctx.property_id \in {"PropStatusFlags", "PropLogBuffer"}
        /\ start + 2 <= Len(buf)
        /\ ~FlagSet_new(IF ctx.property_id = "PropStatusFlags" THEN "StatusFlags"
                        ELSE "LogBufferResultFlags", buf[start + 2]))
        => (inner.kind = "err" /\ outcome.kind = "err")

\* C10: a successful ApplicationDataValue::decode of an application tag of declared
\* length L, from a buffer with at least L bytes remaining, advances the reader by
\* exactly L bytes (by 0 for a Boolean).
C10_CursorAdvance ==
    (Decoded /\ tag.class = "Application" /\ outcome.kind = "ok"
        /\ start + (IF tag.app = "Boolean" THEN 0 ELSE tag.value) <= Len(buf))
        => reader - start = (IF tag.app = "Boolean" THEN 0 ELSE tag.value)

\* C11: on every day of the week the Date that set_time builds and encodes has a
\* weekday in 1..7, 1 on a Monday and 7 on a Sunday, and the weekday byte it
\* writes to the wire is that weekday, never 0.
C11_WeekdayRange ==
    (pc = "sent" /\ src = "set_time") =>
        /\ value.wday \in 1..7
        /\ (now.weekday = "Mon" => value.wday = 1)
        /\ (now.weekday = "Sun" => value.wday = 7)
        /\ writer[5] = value.wday
        /\ writer[5] # 0

====
